---- MODULE Spec2Model ----
(***************************************************************************)
(* Model of the smoker stall-detection consumer                            *)
(* (src/consumers/csv_consumer_davidrm.py): the rolling window (a deque    *)
(* with maxlen), detect_stall, process_message and the consume loop of     *)
(* main; the author-counting consumer                                     *)
(* (src/consumers/json_consumer_davidrm.py) and the producer               *)
(* (src/producers/json_producer_davidrm.py), each under a specification    *)
(* of its own.                                                             *)
(*                                                                         *)
(* Temperatures and the stall threshold are fixed-point numbers in tenths  *)
(* of a degree: "1.5" is 15, 1.0 is 10.  A temperature text is a sequence of  *)
(* one-character strings, so that str.replace and float() are computed on  *)
(* the characters.                                                         *)
(***************************************************************************)
EXTENDS Integers, Sequences, FiniteSets, TLC

\* ------------------------------------------------------------- bounds
MaxMessages == 4
MaxWindow == 2

\* ------------------------------------------------------------- constants
DefaultWindowSize == 5
DefaultThreshold == 10

\* An environment variable that is not set (values are numbers >= 0).
Unset == 0 - 1

\* ------------------------------------------------------------- inputs
Thresholds == {5}
WindowSizes == 1..MaxWindow

\* One process environment: each variable is Unset or holds a number.
Environments ==
    [SMOKER_ROLLING_WINDOW_SIZE : WindowSizes \cup {Unset},
     SMOKER_STALL_THRESHOLD_F : Thresholds \cup {Unset}]

Timestamps == {"t1", "t2"}

\* Texts of the "temperature" field: plain numbers, numbers with a unit
\* marker, and texts that are no number.
TemperatureTexts ==
    { <<"1">>, <<"2">>, <<"2", ".", "0">>,
      <<"1", " ", "C">>, <<"2", ".", "0", " ", "C">>,
      <<"1", " ", "C", ".", "0">>, <<" ", "2", " ">>,
      <<"1", " ", "F">>, <<"2", ".", "0", " ", "F">>,
      <<"1", "C">>, <<" ", "C">>, <<>>, <<"1", " ", "1">>, <<".">> }

NoText == <<"?">>
NoStamp == "none"

\* A raw message, described by what json.loads makes of it.
\*   kind "invalid" : not JSON
\*   kind "object"  : a JSON object; hasTemperature / hasTimestamp say which
\*                    keys it has; tempType is the JSON type of "temperature"
\*   kind "list", "string" : a JSON list / string; hasTemperature,
\*                    hasTimestamp say whether `"temperature" in x` holds
\*   kind "number"  : a JSON number
Msg(k, ht, hs, tt, tx, ts) ==
    [kind |-> k, hasTemperature |-> ht, hasTimestamp |-> hs,
     tempType |-> tt, text |-> tx, timestamp |-> ts]

Messages ==
    { Msg("invalid", FALSE, FALSE, "none", NoText, NoStamp) }
    \cup { Msg("object", TRUE, TRUE, "str", tx, "t1") :
              tx \in TemperatureTexts }
    \cup { Msg("object", TRUE, TRUE, "str", tx, "t2") :
              tx \in {<<"1">>, <<"2">>} }
    \cup { Msg("object", TRUE, TRUE, "num", NoText, "t1") }
    \cup { Msg("object", FALSE, TRUE, "none", NoText, "t1"),
           Msg("object", TRUE, FALSE, "str", <<"1">>, NoStamp),
           Msg("object", FALSE, FALSE, "none", NoText, NoStamp) }
    \cup { Msg(k, b, b, "none", NoText, NoStamp) :
              k \in {"list", "string"}, b \in BOOLEAN }
    \cup { Msg("number", FALSE, FALSE, "none", NoText, NoStamp) }

\* ------------------------------------------------------------- config
\* os.getenv(name, default) followed by int() / float(): the value of the
\* process environment at the time of the call, or the default.
get_rolling_window_size(env) ==
    IF env.SMOKER_ROLLING_WINDOW_SIZE = Unset
    THEN DefaultWindowSize ELSE env.SMOKER_ROLLING_WINDOW_SIZE

get_stall_threshold(env) ==
    IF env.SMOKER_STALL_THRESHOLD_F = Unset
    THEN DefaultThreshold ELSE env.SMOKER_STALL_THRESHOLD_F

\* ------------------------------------------------------------- decoding
Digits == {"0", "1", "2", "3", "4", "5", "6", "7", "8", "9"}

DigitVal(c) ==
    CASE c = "0" -> 0 [] c = "1" -> 1 [] c = "2" -> 2 [] c = "3" -> 3
      [] c = "4" -> 4 [] c = "5" -> 5 [] c = "6" -> 6 [] c = "7" -> 7
      [] c = "8" -> 8 [] c = "9" -> 9

\* temperature_str.replace(" C", ""): every non-overlapping occurrence of
\* the two characters space, C is removed, scanning from the left.
RECURSIVE ReplaceSpaceC(_)
ReplaceSpaceC(s) ==
    IF s = <<>> THEN <<>>
    ELSE IF Len(s) >= 2 /\ s[1] = " " /\ s[2] = "C"
         THEN ReplaceSpaceC(SubSeq(s, 3, Len(s)))
         ELSE <<s[1]>> \o ReplaceSpaceC(Tail(s))

\* float() ignores leading and trailing whitespace.
RECURSIVE LStrip(_)
LStrip(s) ==
    IF s # <<>> /\ s[1] = " " THEN LStrip(Tail(s)) ELSE s

RECURSIVE RStrip(_)
RStrip(s) ==
    IF s # <<>> /\ s[Len(s)] = " " THEN RStrip(SubSeq(s, 1, Len(s) - 1)) ELSE s

Strip(s) == RStrip(LStrip(s))

DotPositions(s) == { i \in 1..Len(s) : s[i] = "." }

\* float() accepts (over the characters used here) digits with at most one
\* decimal point and at least one digit; anything else raises ValueError.
IsFloatText(s) ==
    LET t == Strip(s) IN
    /\ t # <<>>
    /\ \A i \in 1..Len(t) : t[i] \in Digits \cup {"."}
    /\ Cardinality(DotPositions(t)) <= 1
    /\ \E i \in 1..Len(t) : t[i] \in Digits

RECURSIVE DigitsValue(_)
DigitsValue(d) ==
    IF d = <<>> THEN 0
    ELSE 10 * DigitsValue(SubSeq(d, 1, Len(d) - 1)) + DigitVal(d[Len(d)])

\* The value of a float text in tenths (exact for texts with at most one digit
\* after the point, which is all TemperatureTexts holds).
FloatValue(s) ==
    LET t == Strip(s)
        dot == IF DotPositions(t) = {} THEN Len(t) + 1
               ELSE CHOOSE i \in DotPositions(t) : TRUE
        whole == SubSeq(t, 1, dot - 1)
        frac == SubSeq(t, dot + 1, Len(t))
    IN 10 * DigitsValue(whole) + (IF frac = <<>> THEN 0 ELSE DigitVal(frac[1]))

\* The outbound events (log records at info level and above).
EvProcessed == "Processed JSON message"
EvTemperature == "Temperature"
EvStall == "STALL DETECTED"
EvMissing == "Missing required fields"
EvInvalidJSON == "Invalid JSON message"
EvError == "Error processing message"
EvWindowSize == "Rolling window size"
EvThreshold == "Max stall temperature range"

NoValue == 0 - 1

Outcome(ok, v, ts, ev) ==
    [ok |-> ok, temperature |-> v, timestamp |-> ts, events |-> ev]

\* ParseTemperature: float(temperature_str.replace(" C", "")).
ParseTemperatureOK(text) == IsFloatText(ReplaceSpaceC(text))
ParseTemperature(text) == FloatValue(ReplaceSpaceC(text))

\* process_message with two of its checks optional, for the mutants below:
\* checkFields is the test of line 87, stringOnly the .replace of line 90
\* (which only a str has).
DecodeVariant(m, checkFields, stringOnly) ==
    IF m.kind = "invalid"
    THEN Outcome(FALSE, NoValue, NoStamp, <<EvInvalidJSON>>)
    ELSE IF m.kind = "number"
    THEN Outcome(FALSE, NoValue, NoStamp, <<EvProcessed, EvError>>)
    ELSE IF checkFields /\ ~(m.hasTemperature /\ m.hasTimestamp)
    THEN Outcome(FALSE, NoValue, NoStamp, <<EvProcessed, EvMissing>>)
    ELSE IF m.kind # "object" \/ ~(m.hasTemperature /\ m.hasTimestamp)
    THEN Outcome(FALSE, NoValue, NoStamp, <<EvProcessed, EvError>>)
    ELSE IF m.tempType # "str"
    THEN IF stringOnly
         THEN Outcome(FALSE, NoValue, NoStamp, <<EvProcessed, EvError>>)
         ELSE Outcome(TRUE, 10, m.timestamp, <<EvProcessed, EvTemperature>>)
    ELSE IF ~ParseTemperatureOK(m.text)
    THEN Outcome(FALSE, NoValue, NoStamp, <<EvProcessed, EvError>>)
    ELSE Outcome(TRUE, ParseTemperature(m.text), m.timestamp,
                 <<EvProcessed, EvTemperature>>)

\* Mutant: no test for the fields, a missing key raises KeyError.
DecodeNoFieldCheck(m) == DecodeVariant(m, FALSE, TRUE)

\* Mutant: float(temperature) without .replace, a JSON number is accepted.
DecodeNumberAccepted(m) == DecodeVariant(m, TRUE, FALSE)

\* process_message up to and excluding rolling_window.append: what the try
\* block does with one raw message before the window is touched.
Decode(m) ==
    IF m.kind = "invalid"
    THEN Outcome(FALSE, NoValue, NoStamp, <<EvInvalidJSON>>)
    ELSE IF m.kind = "number"
    THEN \* `"temperature" in 3` raises TypeError
         Outcome(FALSE, NoValue, NoStamp, <<EvProcessed, EvError>>)
    ELSE IF ~(m.hasTemperature /\ m.hasTimestamp)
    THEN Outcome(FALSE, NoValue, NoStamp, <<EvProcessed, EvMissing>>)
    ELSE IF m.kind # "object"
    THEN \* message_dict["temperature"] on a list or a str raises TypeError
         Outcome(FALSE, NoValue, NoStamp, <<EvProcessed, EvError>>)
    ELSE IF m.tempType # "str"
    THEN \* a number has no .replace: AttributeError
         Outcome(FALSE, NoValue, NoStamp, <<EvProcessed, EvError>>)
    ELSE IF ~ParseTemperatureOK(m.text)
    THEN \* float() raises ValueError
         Outcome(FALSE, NoValue, NoStamp, <<EvProcessed, EvError>>)
    ELSE Outcome(TRUE, ParseTemperature(m.text), m.timestamp,
                 <<EvProcessed, EvTemperature>>)

\* ------------------------------------------------------------- window
\* Mutant: a plain list, nothing is ever dropped.
DequeAppendUnbounded(w, maxlen, v) == w \o <<v>>

\* Mutant: appendleft, a full deque drops its rightmost item.
DequeAppendLeft(w, maxlen, v) ==
    IF maxlen = 0 THEN w
    ELSE IF Len(w) >= maxlen THEN <<v>> \o SubSeq(w, 1, Len(w) - 1)
    ELSE <<v>> \o w

\* deque(maxlen=N).append(v): a full deque drops its leftmost item.
DequeAppend(w, maxlen, v) ==
    IF maxlen = 0 THEN w
    ELSE IF Len(w) >= maxlen THEN Tail(w) \o <<v>>
    ELSE w \o <<v>>

RECURSIVE SeqMax(_)
SeqMax(w) ==
    IF Len(w) = 1 THEN w[1]
    ELSE LET r == SeqMax(Tail(w)) IN IF w[1] >= r THEN w[1] ELSE r

RECURSIVE SeqMin(_)
SeqMin(w) ==
    IF Len(w) = 1 THEN w[1]
    ELSE LET r == SeqMin(Tail(w)) IN IF w[1] <= r THEN w[1] ELSE r

\* ------------------------------------------------------------- detector
NoRange == NoValue
NoThreshold == NoValue

Decision(ran, stalled, n, t, r) ==
    [ran |-> ran, is_stalled |-> stalled, WINDOW_SIZE |-> n,
     threshold |-> t, temp_range |-> r]

NoDecision == Decision(FALSE, FALSE, 0, NoThreshold, NoRange)

\* Mutant: the boundary is exclusive.
detect_stall_exclusive(w, env) ==
    LET WINDOW_SIZE == get_rolling_window_size(env) IN
    IF Len(w) < WINDOW_SIZE
    THEN Decision(TRUE, FALSE, WINDOW_SIZE, NoThreshold, NoRange)
    ELSE LET temp_range == SeqMax(w) - SeqMin(w)
             t == get_stall_threshold(env)
         IN Decision(TRUE, temp_range < t, WINDOW_SIZE, t, temp_range)

\* Mutant: the window is tested as soon as it holds a value.
detect_stall_eager(w, env) ==
    LET WINDOW_SIZE == get_rolling_window_size(env) IN
    IF Len(w) < 1
    THEN Decision(TRUE, FALSE, WINDOW_SIZE, NoThreshold, NoRange)
    ELSE LET temp_range == SeqMax(w) - SeqMin(w)
             t == get_stall_threshold(env)
         IN Decision(TRUE, temp_range <= t, WINDOW_SIZE, t, temp_range)

\* detect_stall(rolling_window_deque), reading its configuration from the
\* process environment env at the time of the call.
detect_stall(w, env) ==
    LET WINDOW_SIZE == get_rolling_window_size(env) IN
    IF Len(w) < WINDOW_SIZE
    THEN Decision(TRUE, FALSE, WINDOW_SIZE, NoThreshold, NoRange)
    ELSE LET temp_range == SeqMax(w) - SeqMin(w)
             t == get_stall_threshold(env)
         IN Decision(TRUE, temp_range <= t, WINDOW_SIZE, t, temp_range)

\* ------------------------------------------------------------- state
VARIABLES
    externalEnv,      \* the environment outside the process (.env file, shell)
    environ,          \* os.environ, filled when the module is imported
    state,            \* the driver: STARTING, RUNNING, STOPPING, STOPPED, ABORTED
    pos,              \* place in the loop body: "poll" or "appended"
    maxlen,           \* rolling_window.maxlen
    rolling_window,   \* the deque's items, oldest first
    message,          \* the loop variable: the message received last
    decision,         \* what the last detect_stall call compared and returned
    events,           \* the events emitted for the message received last
    consumer,         \* "none", "open" or "closed"
    closeCalls,       \* number of consumer.close() calls
    exitCause,        \* how the loop was left
    appended,         \* history: every value appended, in order
    startupThreshold, \* history: the threshold configured when main started
    received,         \* history: number of messages received
    failed            \* history: number of messages whose decoding failed

\* The author-counting consumer (src/consumers/json_consumer_davidrm.py).
VARIABLES
    author_counts,    \* the defaultdict(int): a count for every key, 0 at first
    json_message,     \* the message process_message was called with last
    jsonReceived,     \* history: number of messages received
    jsonObjects,      \* history: number of messages that parsed as an object
    jsonUnhashable    \* history: objects whose author is a list or an object

\* The producer (src/producers/json_producer_davidrm.py).
VARIABLES
    id_counter,       \* generate_messages' counter
    message_dict,     \* the message yielded last
    sent,             \* history: the messages given to producer.send, in order
    producer,         \* "open" or "closed"
    ppc               \* the producer's place: "generate", "send", "sleep",
                      \* "failed" or "done"

csvVars == <<externalEnv, environ, state, pos, maxlen, rolling_window, message,
             decision, events, consumer, closeCalls, exitCause, appended,
             startupThreshold, received, failed>>

authorVars == <<author_counts, json_message, jsonReceived, jsonObjects,
                jsonUnhashable>>

producerVars == <<id_counter, message_dict, sent, producer, ppc>>

vars == <<csvVars, authorVars, producerVars>>

NoMessage == Msg("none", FALSE, FALSE, "none", NoText, NoStamp)

\* The keys author_counts can get: author names, "unknown" for a message
\* without author, and "null" for the key None of {"author": null}.
AuthorKeys == {"David", "Eve", "unknown", "null"}

\* A raw message of the author consumer, described by what json.loads makes
\* of it: kind "invalid" (not JSON), "other" (JSON, not an object) or
\* "object"; authorType is "str", "null" or "list" (a list or an object,
\* which cannot be a dict key), "none" without author.
JsonMsg(k, ha, at, a) ==
    [kind |-> k, hasAuthor |-> ha, authorType |-> at, author |-> a]

NoJsonMessage == JsonMsg("none", FALSE, "none", "unknown")

JsonMessages ==
    { JsonMsg("invalid", FALSE, "none", "unknown"),
      JsonMsg("other", FALSE, "none", "unknown"),
      JsonMsg("object", FALSE, "none", "unknown"),
      JsonMsg("object", TRUE, "str", "David"),
      JsonMsg("object", TRUE, "str", "Eve"),
      JsonMsg("object", TRUE, "str", "unknown"),
      JsonMsg("object", TRUE, "null", "null"),
      JsonMsg("object", TRUE, "list", "null") }

\* author_counts = defaultdict(int), and no message yet.
InitAuthorCounts ==
    /\ author_counts = [a \in AuthorKeys |-> 0]
    /\ json_message = NoJsonMessage
    /\ jsonReceived = 0
    /\ jsonObjects = 0
    /\ jsonUnhashable = 0

ProducerTimestamps == {"t1", "t2", "t3"}

\* Mutant: the odd ids get the high priority.
GenerateMessageOddHigh(id, ts) ==
    [id |-> id, author |-> "David", message |-> id, timestamp |-> ts,
     priority |-> IF id % 2 = 1 THEN "high" ELSE "normal"]

\* The dict generate_messages builds for id_counter = id at time ts (the
\* message text is "This is custom message <id>").
GenerateMessage(id, ts) ==
    [id |-> id, author |-> "David", message |-> id, timestamp |-> ts,
     priority |-> IF id % 2 = 0 THEN "high" ELSE "normal"]

NoProduced == GenerateMessage(0, "t1")

\* The producer is created, generate_messages has set id_counter = 1.
InitProducer ==
    /\ id_counter = 1
    /\ message_dict = NoProduced
    /\ sent = <<>>
    /\ producer = "open"
    /\ ppc = "generate"

\* load_dotenv() at import copies the outside environment into os.environ.
Init ==
    /\ InitAuthorCounts
    /\ InitProducer
    /\ externalEnv \in Environments
    /\ environ = externalEnv
    /\ state = "STARTING"
    /\ pos = "poll"
    /\ maxlen = 0
    /\ rolling_window = <<>>
    /\ message = NoMessage
    /\ decision = NoDecision
    /\ events = <<>>
    /\ consumer = "none"
    /\ closeCalls = 0
    /\ exitCause = "none"
    /\ appended = <<>>
    /\ startupThreshold = NoThreshold
    /\ received = 0
    /\ failed = 0

\* Mutant: every os.getenv call sees the outside environment as it is now, as
\* if the .env file were loaded again on each call.
os_environ_reloaded == externalEnv

\* What os.getenv reads: the process's own environment.
os_environ == environ

\* The outside environment changes while the driver runs (the .env file is
\* edited, the parent shell exports another value).  No statement of the
\* program copies it into os.environ again.
ExternalEnvChange(e) ==
    /\ state = "RUNNING"
    /\ e # externalEnv
    /\ externalEnv' = e
    /\ UNCHANGED <<environ, state, pos, maxlen, rolling_window, message,
                   decision, events, consumer, closeCalls, exitCause,
                   appended,
                   startupThreshold, received, failed,
                   authorVars, producerVars>>

\* main, lines 114-126: read the window size, create the deque, create the
\* consumer.
Start ==
    /\ state = "STARTING"
    /\ maxlen' = get_rolling_window_size(os_environ)
    /\ rolling_window' = <<>>
    /\ consumer' = "open"
    /\ state' = "RUNNING"
    /\ startupThreshold' = get_stall_threshold(os_environ)
    /\ UNCHANGED <<externalEnv, environ, pos, message, decision, events,
                   closeCalls, exitCause, appended, received, failed,
                   authorVars, producerVars>>

\* An exception or interrupt in lines 114-126, which no try block covers,
\* ends the process before the loop is entered: either create_kafka_consumer
\* raised (no consumer) or the interrupt came after it returned.
StartupAbort(acquired) ==
    /\ state = "STARTING"
    /\ state' = "ABORTED"
    /\ consumer' = IF acquired THEN "open" ELSE "none"
    /\ exitCause' = "startup"
    /\ UNCHANGED <<externalEnv, environ, pos, maxlen, rolling_window, message,
                   decision, events, closeCalls, appended,
                   startupThreshold, received, failed,
                   authorVars, producerVars>>

\* Mutant: only json.JSONDecodeError is caught, any other exception escapes.
PropagatesUncaught(d) == ~d.ok /\ d.events[Len(d.events)] = EvError

\* Does the exception of a failed decode escape process_message?  Both
\* except clauses end by logging, so it never does.
Propagates(d) == FALSE

\* Mutant: a reading of 0 is appended when the temperature cannot be decoded.
WindowAfterDefaultReading(w, n, d) ==
    DequeAppend(w, n, IF d.ok THEN d.temperature ELSE 0)

\* rolling_window after the try block's lines 83-95 for outcome d.
WindowAfter(w, n, d) ==
    IF d.ok THEN DequeAppend(w, n, d.temperature) ELSE w

\* process_message(m) up to and including rolling_window.append (success) or
\* to its end (failure).
DecodeStep(m) ==
    LET d == Decode(m) IN
    /\ state = "RUNNING"
    /\ message' = m
    /\ decision' = NoDecision
    /\ events' = d.events
    /\ rolling_window' = WindowAfter(rolling_window, maxlen, d)
    /\ appended' = IF d.ok THEN Append(appended, d.temperature) ELSE appended
    /\ received' = received + 1
    /\ failed' = IF d.ok THEN failed ELSE failed + 1
    /\ pos' = IF d.ok THEN "appended" ELSE "poll"
    /\ IF ~d.ok /\ Propagates(d)
       THEN state' = "STOPPING" /\ exitCause' = "error"
       ELSE UNCHANGED <<state, exitCause>>
    /\ UNCHANGED <<externalEnv, environ, maxlen, consumer, closeCalls,
                   startupThreshold, authorVars, producerVars>>

\* Mutant: a message is taken up while the one before is still in
\* process_message (one thread per message).
ProcessMessageDecodeOverlapped(m) ==
    /\ received < MaxMessages
    /\ DecodeStep(m)

\* The for loop hands the next message m to process_message once the call
\* for the message before has returned.
ProcessMessageDecode(m) ==
    /\ pos = "poll"
    /\ received < MaxMessages
    /\ DecodeStep(m)

\* What detect_stall logs at info level for result r: the getters log the
\* value they return each time they are called, the window size always and
\* the threshold when the window is full.
DetectEvents(r) ==
    <<EvWindowSize>>
    \o (IF r.threshold # NoThreshold THEN <<EvThreshold>> ELSE <<>>)

\* Mutant: the window is emptied once a stall has been detected.
ProcessMessageDetectReset ==
    LET r == detect_stall(rolling_window, os_environ) IN
    /\ state = "RUNNING"
    /\ pos = "appended"
    /\ decision' = r
    /\ events' = events \o DetectEvents(r)
                   \o (IF r.is_stalled THEN <<EvStall>> ELSE <<>>)
    /\ rolling_window' = IF r.is_stalled THEN <<>> ELSE rolling_window
    /\ pos' = "poll"
    /\ UNCHANGED <<externalEnv, environ, state, maxlen,
                   message, consumer, closeCalls, exitCause, appended,
                   startupThreshold, received, failed,
                   authorVars, producerVars>>

\* Mutant: the stall is detected but not logged.
ProcessMessageDetectSilent ==
    LET r == detect_stall(rolling_window, os_environ) IN
    /\ state = "RUNNING"
    /\ pos = "appended"
    /\ decision' = r
    /\ events' = events \o DetectEvents(r)
    /\ pos' = "poll"
    /\ UNCHANGED <<externalEnv, environ, state, maxlen, rolling_window,
                   message, consumer, closeCalls, exitCause, appended,
                   startupThreshold, received, failed,
                   authorVars, producerVars>>

\* process_message, lines 98-99: detect_stall and the stall event.
ProcessMessageDetect ==
    LET r == detect_stall(rolling_window, os_environ) IN
    /\ state = "RUNNING"
    /\ pos = "appended"
    /\ decision' = r
    /\ events' = events \o DetectEvents(r)
                   \o (IF r.is_stalled THEN <<EvStall>> ELSE <<>>)
    /\ pos' = "poll"
    /\ UNCHANGED <<externalEnv, environ, state, maxlen, rolling_window,
                   message, consumer, closeCalls, exitCause, appended,
                   startupThreshold, received, failed,
                   authorVars, producerVars>>

\* KeyboardInterrupt is raised wherever the main thread is: waiting for the
\* next message, or inside process_message (whose except clauses catch
\* Exception, which KeyboardInterrupt is not).
Interrupt ==
    /\ state = "RUNNING"
    /\ state' = "STOPPING"
    /\ exitCause' = "interrupt"
    /\ UNCHANGED <<externalEnv, environ, pos, maxlen, rolling_window, message,
                   decision, events, consumer, closeCalls, appended,
                   startupThreshold, received, failed,
                   authorVars, producerVars>>

\* Mutant: the stream error is logged inside the loop, which goes on polling.
StreamErrorRetry ==
    /\ state = "RUNNING"
    /\ pos = "poll"
    /\ exitCause # "error"
    /\ exitCause' = "error"
    /\ UNCHANGED <<externalEnv, environ, state, pos, maxlen, rolling_window,
                   message, decision, events, consumer, closeCalls, appended,
                   startupThreshold, received, failed,
                   authorVars, producerVars>>

\* The consumer's iterator raises: except Exception in main.
StreamError ==
    /\ state = "RUNNING"
    /\ pos = "poll"
    /\ state' = "STOPPING"
    /\ exitCause' = "error"
    /\ UNCHANGED <<externalEnv, environ, pos, maxlen, rolling_window, message,
                   decision, events, consumer, closeCalls, appended,
                   startupThreshold, received, failed,
                   authorVars, producerVars>>

\* The consumer's iterator is exhausted: the for loop ends.
StreamEnd ==
    /\ state = "RUNNING"
    /\ pos = "poll"
    /\ state' = "STOPPING"
    /\ exitCause' = "end"
    /\ UNCHANGED <<externalEnv, environ, pos, maxlen, rolling_window, message,
                   decision, events, consumer, closeCalls, appended,
                   startupThreshold, received, failed,
                   authorVars, producerVars>>

\* Mutant: the loop is left without the finally clause.
CloseWithoutRelease ==
    /\ state = "STOPPING"
    /\ state' = "STOPPED"
    /\ UNCHANGED <<externalEnv, environ, pos, maxlen, rolling_window, message,
                   decision, events, consumer, closeCalls, exitCause, appended,
                   startupThreshold, received, failed,
                   authorVars, producerVars>>

\* finally: consumer.close().
Close ==
    /\ state = "STOPPING"
    /\ consumer' = "closed"
    /\ closeCalls' = closeCalls + 1
    /\ state' = "STOPPED"
    /\ UNCHANGED <<externalEnv, environ, pos, maxlen, rolling_window, message,
                   decision, events, exitCause, appended,
                   startupThreshold, received, failed,
                   authorVars, producerVars>>

Next ==
    \/ \E e \in Environments : ExternalEnvChange(e)
    \/ Start
    \/ \E a \in BOOLEAN : StartupAbort(a)
    \/ \E m \in Messages : ProcessMessageDecode(m)
    \/ ProcessMessageDetect
    \/ Interrupt
    \/ StreamError
    \/ StreamEnd
    \/ Close

Spec == Init /\ [][Next]_vars

\* ------------------------------------------------------------- helpers
Min(a, b) == IF a <= b THEN a ELSE b

\* The last n items of s (all of s when it has no more than n).
LastN(s, n) == IF Len(s) <= n THEN s ELSE SubSeq(s, Len(s) - n + 1, Len(s))

Emitted(ev) == \E i \in DOMAIN events : events[i] = ev

Values(w) == { w[i] : i \in DOMAIN w }

\* max(w) - min(w) of a non-empty window, over its set of values.
RangeOf(w) ==
    (CHOOSE x \in Values(w) : \A y \in Values(w) : x >= y)
    - (CHOOSE x \in Values(w) : \A y \in Values(w) : x <= y)

\* The window is full: it holds as many values as its capacity.
IsFull == maxlen > 0 /\ Len(rolling_window) = maxlen

\* The message received last failed to decode.
LastFailed == received > 0 /\ ~Decode(message).ok

\* ------------------------------------------------------------- claims

\* C1: the window never holds more than N values, it holds
\* min(number of appends, N) of them, and there is one append per message
\* that decoded.
C1_WindowLength ==
    /\ Len(rolling_window) <= maxlen
    /\ Len(rolling_window) = Min(Len(appended), maxlen)
    /\ Len(appended) = received - failed

\* C1 witness: more values were appended than the window holds, with a failed
\* message among those received.
C1_Witness ==
    /\ state = "RUNNING"
    /\ Len(appended) > maxlen
    /\ failed > 0
    /\ Len(rolling_window) = maxlen

\* C2: once more than N values have been appended the window is exactly the
\* last N of them, in arrival order.
C2_FifoEviction ==
    Len(appended) > maxlen => rolling_window = LastN(appended, maxlen)

\* C2 witness: a window of two values in descending order after an eviction,
\* with a failed message among those received.
C2_Witness ==
    /\ maxlen = 2
    /\ Len(appended) > maxlen
    /\ failed > 0
    /\ rolling_window = <<20, 10>>

\* C3: on a full window the detector says stalled exactly when
\* max - min <= T, the boundary included.
C3_InclusiveBoundary ==
    (decision.ran /\ IsFull) =>
        (decision.is_stalled <=>
            RangeOf(rolling_window) <= get_stall_threshold(environ))

\* C3 witness: a full window whose range equals the threshold 1.0, found
\* stalled.
C3_Witness ==
    /\ decision.ran
    /\ IsFull
    /\ RangeOf(rolling_window) = 10
    /\ get_stall_threshold(environ) = 10
    /\ decision.is_stalled

\* C4: with fewer than N values in the window the detector says not stalled,
\* and no stall event is emitted before the N-th decoded message.
C4_UndecidedRule ==
    /\ (decision.ran /\ Len(rolling_window) < get_rolling_window_size(environ))
          => ~decision.is_stalled
    /\ Emitted(EvStall) => Len(appended) >= get_rolling_window_size(environ)

\* C4 witness: the detector ran on a window that is not full and whose values
\* are within the threshold.
C4_Witness ==
    /\ decision.ran
    /\ Len(rolling_window) >= 1
    /\ Len(rolling_window) < get_rolling_window_size(environ)
    /\ RangeOf(rolling_window) <= get_stall_threshold(environ)

\* C5: a message whose decoding fails leaves the window as it was.
C5_FailureLeavesWindow ==
    [][failed' = failed + 1 => rolling_window' = rolling_window]_vars

\* C5 witness: the message received last failed and the window holds values.
C5_Witness ==
    /\ LastFailed
    /\ failed > 0
    /\ rolling_window # <<>>

\* C6: a decode failure leaves the driver RUNNING and ready to receive the
\* next message.
C6_FailureKeepsRunning ==
    [][failed' = failed + 1 => (state' = "RUNNING" /\ pos' = "poll")]_vars

\* C6 witness: after failed messages the next one was received, decoded and
\* run through the detector.
C6_Witness ==
    /\ state = "RUNNING"
    /\ failed >= 1
    /\ received = failed + 1
    /\ decision.ran

UnitMarkers == {"C", "F"}

\* text is a number followed by a space and a unit marker.
HasUnitSuffix(text) ==
    /\ Len(text) >= 3
    /\ text[Len(text) - 1] = " "
    /\ text[Len(text)] \in UnitMarkers
    /\ IsFloatText(SubSeq(text, 1, Len(text) - 2))

\* C7: a temperature "x u" (a number, a space, a unit marker) decodes to x,
\* which is appended.
C7_UnitSuffixStripped ==
    (/\ received > 0
     /\ message.kind = "object"
     /\ message.hasTemperature /\ message.hasTimestamp
     /\ message.tempType = "str"
     /\ HasUnitSuffix(message.text))
    => (/\ Emitted(EvTemperature)
        /\ appended # <<>>
        /\ appended[Len(appended)]
             = FloatValue(SubSeq(message.text, 1, Len(message.text) - 2)))

\* C8: however the loop ends, the consumer is closed, once, before STOPPED.
C8_ConsumerReleased ==
    /\ closeCalls <= 1
    /\ state = "STOPPED" =>
          (/\ exitCause \in {"end", "interrupt", "error"}
           /\ consumer = "closed"
           /\ closeCalls = 1)
    /\ consumer = "closed" => state = "STOPPED"

\* C8 witness: stopped after an interrupt that came in the middle of a
\* message.
C8_Witness ==
    /\ state = "STOPPED"
    /\ exitCause = "interrupt"
    /\ pos = "appended"

\* C9: once the driver has left RUNNING, every value appended has been run
\* through the detector.
C9_CooperativeCancellation ==
    state \in {"STOPPING", "STOPPED"} => pos # "appended"

\* C10: the detector compares against the capacity the window was created
\* with and against the threshold configured at startup, whatever the outside
\* environment has become.
C10_ConfigImmutable ==
    decision.ran =>
        /\ decision.WINDOW_SIZE = maxlen
        /\ decision.threshold # NoThreshold
              => decision.threshold = startupThreshold

\* C10 witness: the detector compared a full window against the threshold
\* while the outside environment holds another window size and another
\* threshold.
C10_Witness ==
    /\ decision.ran
    /\ decision.threshold # NoThreshold
    /\ get_rolling_window_size(externalEnv) # maxlen
    /\ get_stall_threshold(externalEnv) # startupThreshold

ErrorEvents == {EvMissing, EvInvalidJSON, EvError}

ErrorCount == Cardinality({ i \in DOMAIN events : events[i] \in ErrorEvents })

\* The message received last has been processed to the end.
Processed == received > 0 /\ pos = "poll"

MissingFieldMessage(m) ==
    m.kind = "object" /\ ~(m.hasTemperature /\ m.hasTimestamp)

\* C12: an object without the temperature or the timestamp field is rejected
\* with the missing-fields error, not the invalid-JSON or the processing
\* error, and the window is not mutated.
C12_MissingFieldRejected ==
    /\ []((received > 0 /\ MissingFieldMessage(message)) =>
             /\ events = <<EvProcessed, EvMissing>>
             /\ EvMissing \notin {EvInvalidJSON, EvError}
             /\ pos = "poll")
    /\ [][(received' = received + 1 /\ MissingFieldMessage(message')) =>
             /\ rolling_window' = rolling_window
             /\ appended' = appended
             /\ failed' = failed + 1]_vars

\* C12 witness: {"timestamp": "t1"} was received while the window held a
\* value, and was answered with the missing-fields error.
C12_Witness ==
    /\ received > 0
    /\ message = Msg("object", FALSE, TRUE, "none", NoText, "t1")
    /\ Emitted(EvMissing)
    /\ rolling_window # <<>>

\* C13: the driver leaves RUNNING only for STOPPING; the cause "error" is
\* recorded only by a stream failure met while polling, not by a message
\* that failed to decode; from STOPPING the only step is to STOPPED, no
\* message is received after RUNNING, and nothing happens after STOPPED.
C13_OnlyFatalPath ==
    [][/\ (state = "RUNNING" /\ state' # "RUNNING") =>
             /\ state' = "STOPPING"
             /\ exitCause' \in {"error", "interrupt", "end"}
             /\ received' = received
       /\ (exitCause' = "error" /\ exitCause # "error") =>
             /\ state = "RUNNING" /\ pos = "poll"
             /\ state' = "STOPPING"
             /\ received' = received /\ failed' = failed
       /\ state = "STOPPING" =>
             /\ state' = "STOPPED"
             /\ exitCause' = exitCause
             /\ received' = received
       /\ state # "STOPPED"
       /\ failed' = failed + 1 => (state' = "RUNNING" /\ exitCause' = "none")
      ]_vars

\* C13 witness: stopped by a stream error after messages that decoded and
\* messages that failed.
C13_Witness ==
    /\ state = "STOPPED"
    /\ exitCause = "error"
    /\ failed > 0
    /\ appended # <<>>

\* ------------------------------------------------------------- end to end
\* The default configuration (N = 5, T = 1.0) fed with well-formed readings:
\* the five of the example and one that is 1.7 above the lowest of them.
EndToEndTexts ==
    { <<"2", "2", "5">>, <<"2", "2", "5", ".", "2">>,
      <<"2", "2", "5", ".", "1">>, <<"2", "2", "5", ".", "0">>,
      <<"2", "2", "5", ".", "3">>, <<"2", "2", "6", ".", "7">> }

EndToEndMessages ==
    { Msg("object", TRUE, TRUE, "str", tx, "t1") : tx \in EndToEndTexts }

InitEndToEnd ==
    /\ Init
    /\ externalEnv = [SMOKER_ROLLING_WINDOW_SIZE |-> Unset,
                      SMOKER_STALL_THRESHOLD_F |-> Unset]

\* One message more than the window holds is fed, so that the window slides.
EndToEndFeed(m) ==
    /\ pos = "poll"
    /\ received < DefaultWindowSize + 1
    /\ DecodeStep(m)

NextEndToEnd ==
    \/ Start
    \/ \E m \in EndToEndMessages : EndToEndFeed(m)
    \/ ProcessMessageDetect

SpecEndToEnd == InitEndToEnd /\ [][NextEndToEnd]_vars

ExampleReadings == <<2250, 2252, 2251, 2250, 2253>>

\* C14: with N = 5 and T = 1.0 no stall is decided or logged for the first
\* four readings; whenever the window is full and its spread is at most T the
\* decision is stalled, with the spread as range, and is logged; for the
\* readings 225, 225.2, 225.1, 225.0, 225.3 the fifth decision is stalled
\* with range 0.3.
C14_EndToEnd ==
    /\ (decision.ran /\ Len(appended) < DefaultWindowSize) =>
          (~decision.is_stalled /\ ~Emitted(EvStall))
    /\ (decision.ran /\ Len(appended) >= DefaultWindowSize
          /\ RangeOf(rolling_window) <= DefaultThreshold) =>
          /\ decision.is_stalled
          /\ decision.temp_range = RangeOf(rolling_window)
          /\ Emitted(EvStall)
    /\ (decision.ran /\ appended = ExampleReadings) =>
          (decision.is_stalled /\ decision.temp_range = 3)

\* C14 witness: the five readings of the example were fed in order and the
\* fifth was found stalled with range 0.3.
C14_Witness ==
    /\ appended = ExampleReadings
    /\ failed = 0
    /\ maxlen = DefaultWindowSize
    /\ decision.ran
    /\ decision.is_stalled
    /\ decision.temp_range = 3
    /\ decision.threshold = DefaultThreshold

\* C15: a message is received only when the one before has been processed to
\* the end (its decision made, when it decoded); a step appends at most one
\* value; a decision is made for the message received last, before the next
\* is received.
C15_Sequential ==
    [][/\ received' = received + 1 =>
             /\ pos = "poll"
             /\ (received > 0 /\ ~LastFailed) => decision.ran
       /\ Len(appended') <= Len(appended) + 1
       /\ (decision'.ran /\ ~decision.ran) =>
             (pos = "appended" /\ received' = received /\ message' = message)
      ]_vars

\* C15 witness: two messages decoded one after the other, each with its
\* decision.
C15_Witness ==
    /\ state = "RUNNING"
    /\ pos = "poll"
    /\ received >= 2
    /\ Len(appended) >= 2
    /\ decision.ran

\* C16: the step that runs detect_stall leaves the window as it was: same
\* values, same order, same capacity, whatever the decision.
C16_DetectorLeavesWindow ==
    [][(pos = "appended" /\ pos' = "poll") =>
          (rolling_window' = rolling_window /\ maxlen' = maxlen)]_vars

\* C16 witness: the detector has run on a full window of two values and found
\* it stalled, and the window still holds them.
C16_Witness ==
    /\ decision.ran
    /\ decision.is_stalled
    /\ IsFull
    /\ Len(rolling_window) >= 2
    /\ rolling_window = LastN(appended, maxlen)

\* m parsed, but is no JSON object, or is one whose temperature is no string.
IllTypedMessage(m) ==
    \/ m.kind \in {"list", "string", "number"}
    \/ m.kind = "object" /\ m.hasTemperature /\ m.hasTimestamp
          /\ m.tempType = "num"

\* C17: a payload that is not an object, or whose temperature is not a
\* string, is a failure of that message only: one error event, the window
\* unchanged, the driver RUNNING and ready for the next message.
C17_IllTypedRecoverable ==
    /\ []((received > 0 /\ IllTypedMessage(message)) =>
             /\ LastFailed
             /\ ErrorCount = 1
             /\ events[Len(events)] \in {EvError, EvMissing}
             /\ ~Emitted(EvTemperature)
             /\ pos = "poll")
    /\ [][(received' = received + 1 /\ IllTypedMessage(message')) =>
             /\ rolling_window' = rolling_window
             /\ appended' = appended
             /\ failed' = failed + 1
             /\ state' = "RUNNING"]_vars

\* C17 witness: a message whose temperature is a bare number was answered
\* with the processing error while the window held a value, and the message
\* after it was received.
C17_Witness ==
    /\ state = "RUNNING"
    /\ message = Msg("object", TRUE, TRUE, "num", NoText, "t1")
    /\ Emitted(EvError)
    /\ rolling_window # <<>>
    /\ failed >= 2

\* ------------------------------------------------------------- author counts
\* Mutant: message_dict.get("author") without the default.
JsonAuthorNoDefault(m) == IF m.hasAuthor THEN m.author ELSE "null"

\* message_dict.get("author", "unknown").
JsonAuthor(m) == IF m.hasAuthor THEN m.author ELSE "unknown"

\* A list or an object as author cannot be a key: author_counts[author]
\* raises TypeError, which except Exception logs.
Unhashable(m) == m.kind = "object" /\ m.hasAuthor /\ m.authorType = "list"

\* author_counts after process_message(m).
AuthorCountsAfter(c, m) ==
    IF m.kind # "object" \/ Unhashable(m) THEN c
    ELSE [c EXCEPT ![JsonAuthor(m)] = @ + 1]

\* process_message(m) of the author consumer.
JsonProcessMessage(m) ==
    /\ jsonReceived < MaxMessages
    /\ json_message' = m
    /\ jsonReceived' = jsonReceived + 1
    /\ jsonObjects' = IF m.kind = "object" THEN jsonObjects + 1 ELSE jsonObjects
    /\ jsonUnhashable' =
          IF Unhashable(m) THEN jsonUnhashable + 1 ELSE jsonUnhashable
    /\ author_counts' = AuthorCountsAfter(author_counts, m)
    /\ UNCHANGED <<csvVars, producerVars>>

InitAuthors ==
    /\ Init
    /\ externalEnv = [SMOKER_ROLLING_WINDOW_SIZE |-> Unset,
                      SMOKER_STALL_THRESHOLD_F |-> Unset]

NextAuthors == \E m \in JsonMessages : JsonProcessMessage(m)

SpecAuthors == InitAuthors /\ [][NextAuthors]_vars

RECURSIVE SumOver(_, _)
SumOver(c, keys) ==
    IF keys = {} THEN 0
    ELSE LET a == CHOOSE x \in keys : TRUE IN c[a] + SumOver(c, keys \ {a})

SumCounts == SumOver(author_counts, AuthorKeys)

\* C18 as stated: no count is negative and the counts add up to the number of
\* messages that parsed as a JSON object.
C18_CountsSumToObjects ==
    /\ \A a \in AuthorKeys : author_counts[a] >= 0
    /\ SumCounts = jsonObjects

\* What holds of C18: no count is negative or ever decreases; the counts add up to
\* the number of objects whose author can be a key (objects with a list or an
\* object as author are not counted); an object without author adds one to
\* "unknown" and to nothing else; invalid JSON, a non-object and an object
\* with an unhashable author change no count.
C18_AuthorCounts ==
    /\ [](/\ \A a \in AuthorKeys : author_counts[a] >= 0
          /\ SumCounts = jsonObjects - jsonUnhashable)
    /\ [][/\ \A a \in AuthorKeys : author_counts'[a] >= author_counts[a]
          /\ (jsonReceived' = jsonReceived + 1
                /\ json_message'.kind = "object" /\ ~json_message'.hasAuthor)
               => author_counts' =
                     [author_counts EXCEPT !["unknown"] = @ + 1]
          /\ (jsonReceived' = jsonReceived + 1
                /\ (json_message'.kind # "object" \/ Unhashable(json_message')))
               => author_counts' = author_counts
         ]_vars

\* A state where that case happens: an object without author was counted under "unknown" after
\* an object with a list as author and invalid JSON were received.
C18_Witness ==
    /\ json_message = JsonMsg("object", FALSE, "none", "unknown")
    /\ author_counts["unknown"] = 1
    /\ jsonUnhashable = 1
    /\ jsonObjects = 2
    /\ jsonReceived = 3

\* ------------------------------------------------------------------ producer
\* generate_messages builds the message for id_counter and yields it to the
\* for loop of main.
ProducerGenerate(ts) ==
    /\ ppc = "generate"
    /\ id_counter <= MaxMessages
    /\ message_dict' = GenerateMessage(id_counter, ts)
    /\ ppc' = "send"
    /\ UNCHANGED <<id_counter, sent, producer, csvVars, authorVars>>

\* json.dumps and producer.send(topic, value=message_json) succeed.
ProducerSend ==
    /\ ppc = "send"
    /\ sent' = Append(sent, message_dict)
    /\ ppc' = "resume"
    /\ UNCHANGED <<id_counter, message_dict, producer, csvVars, authorVars>>

\* The loop asks for the next message: the generator resumes after its yield.
ProducerResume ==
    /\ ppc = "resume"
    /\ id_counter' = id_counter + 1
    /\ ppc' = "generate"
    /\ UNCHANGED <<message_dict, sent, producer, csvVars, authorVars>>

\* json.dumps or producer.send raises: except Exception logs the error.
ProducerError ==
    /\ ppc = "send"
    /\ ppc' = "failed"
    /\ UNCHANGED <<id_counter, message_dict, sent, producer, csvVars,
                   authorVars>>

\* KeyboardInterrupt in the loop: no except clause takes it.
ProducerInterrupt ==
    /\ ppc \in {"generate", "send", "resume"}
    /\ ppc' = "interrupted"
    /\ UNCHANGED <<id_counter, message_dict, sent, producer, csvVars,
                   authorVars>>

\* finally: producer.close(); main ends after an error, the interrupt
\* propagates.
ProducerClose ==
    /\ ppc \in {"failed", "interrupted"}
    /\ producer' = "closed"
    /\ ppc' = IF ppc = "failed" THEN "done" ELSE "aborted"
    /\ UNCHANGED <<id_counter, message_dict, sent, csvVars, authorVars>>

NextProducer ==
    \/ \E ts \in ProducerTimestamps : ProducerGenerate(ts)
    \/ ProducerSend
    \/ ProducerResume
    \/ ProducerError
    \/ ProducerInterrupt
    \/ ProducerClose

InitProducerRun ==
    /\ Init
    /\ externalEnv = [SMOKER_ROLLING_WINDOW_SIZE |-> Unset,
                      SMOKER_STALL_THRESHOLD_F |-> Unset]

SpecProducer == InitProducerRun /\ [][NextProducer]_vars

\* C19: the k-th message yielded has id k (ids start at 1, go up by exactly
\* 1, none repeated or skipped) and priority "high" exactly when k is even;
\* messages are sent in id order; once the send loop has exited through an
\* error the producer is closed.
C19_ProducerOrder ==
    /\ [](/\ id_counter >= 1
          /\ \A k \in DOMAIN sent :
                /\ sent[k].id = k
                /\ sent[k].priority = "high" <=> k % 2 = 0
          /\ ppc \in {"send", "resume"} =>
                /\ message_dict.id = id_counter
                /\ message_dict.priority = "high" <=> id_counter % 2 = 0
          /\ ppc = "send" => id_counter = Len(sent) + 1
          /\ ppc = "resume" => id_counter = Len(sent)
          /\ ppc = "generate" => id_counter = Len(sent) + 1
          /\ ppc \in {"done", "aborted"} => producer = "closed"
          /\ producer = "closed" => ppc \in {"done", "aborted"})
    /\ [][/\ id_counter' \in {id_counter, id_counter + 1}
          /\ sent' # sent => sent' = Append(sent, message_dict)
          /\ (ppc = "failed" /\ ppc' # ppc) =>
                ppc' = "done" /\ producer' = "closed"
         ]_vars

\* C19 witness: messages 1 (normal) and 2 (high) were sent, the third send
\* raised, and the producer was closed.
C19_Witness ==
    /\ ppc = "done"
    /\ producer = "closed"
    /\ Len(sent) = 2
    /\ sent[1].priority = "normal"
    /\ sent[2].priority = "high"
    /\ message_dict.id = 3

====
